---------------------------- MODULE Spec2Model ----------------------------
(***************************************************************************)
(* flight-dispatcher: the document reconciliation engine (parseSections,   *)
(* extractPreservedData, merge, updateTimestamp), the command line run     *)
(* that drives it, and the git hook scripts it writes.                     *)
(*                                                                         *)
(* Representation of strings.  A character is a TLA+ string: "#", " ",     *)
(* "\t", "-", "[", "]", ">", ".", or a word such as "About This Project"    *)
(* that stands for a run of characters beginning and ending with a letter  *)
(* or digit and holding no line break.  A line is a sequence of            *)
(* characters.  A text is the non-empty sequence of lines that             *)
(* text.split('\n') returns: the empty string is <<Blank>>, and "a\n" is   *)
(* <<a, Blank>>.  Every string operation of the code is modelled on this   *)
(* representation.                                                         *)
(***************************************************************************)
EXTENDS Integers, Sequences, FiniteSets, TLC

VARIABLES
  existingContent,   \* merge's first argument / main's existingContent
  newContent,        \* merge's second argument / main's generated
  pc,                \* which call has been made / where main stands
  emitted,           \* finalSections of the last merge call
  finalContent,      \* the string the last merge call returned / main's finalContent
  preserved,         \* the record the last extractPreservedData call returned
  reparsed,          \* parseSections(finalContent)
  flags,             \* main's flags
  today,             \* the date string formatDate() returns during the run / updateTimestamp's date
  outputFile,        \* .github/copilot-instructions.md: its text, or NoFile
  fileBefore,        \* outputFile as it was when the run started
  profileFile,       \* ~/.flight-dispatcher/profile.json: NoProfile or a profile
  profile,           \* main's profile
  answers,           \* what askProjectQuestions returned
  hooksConfig,       \* what askHookQuestions returned: the hooks
  gitHooksDir,       \* whether .git/hooks exists
  written,           \* the files the run has written so far
  prompted,          \* the phases of the run that have put a prompt to the user
  runs,              \* the runs started so far
  hookFiles,         \* the scripts in .git/hooks, by trigger
  shell              \* the sh process that runs a hook script

engineVars == <<existingContent, newContent, pc, emitted, finalContent, preserved, reparsed>>

engineVars_but_pc == <<existingContent, newContent, emitted, finalContent, preserved, reparsed>>

cliVars == <<flags, today, outputFile, fileBefore, profileFile, profile, answers,
             hooksConfig, gitHooksDir, written, prompted, runs>>

hookVars == <<hookFiles, shell>>

vars == <<engineVars, cliVars, hookVars>>

(***************************************************************************)
(* Strings                                                                 *)
(***************************************************************************)
Blank == <<>>
EmptyText == <<Blank>>
NewlineText == <<Blank, Blank>>

\* JavaScript's \s and the characters trim()/trimEnd() remove
IsWhitespace(c) == c \in {" ", "\t"}

AllWhitespace(line) == \A i \in 1..Len(line) : IsWhitespace(line[i])

\* a + b on strings
Concat(a, b) ==
  SubSeq(a, 1, Len(a) - 1) \o <<a[Len(a)] \o b[1]>> \o Tail(b)

\* line.trimEnd() for a string without line breaks
RECURSIVE TrimEndLine(_)
TrimEndLine(line) ==
  IF line = <<>> THEN <<>>
  ELSE IF IsWhitespace(line[Len(line)])
       THEN TrimEndLine(SubSeq(line, 1, Len(line) - 1))
       ELSE line

RECURSIVE TrimStartLine(_)
TrimStartLine(line) ==
  IF line = <<>> THEN <<>>
  ELSE IF IsWhitespace(line[1]) THEN TrimStartLine(Tail(line)) ELSE line

TrimLine(line) == TrimStartLine(TrimEndLine(line))

\* text.trimEnd(): line breaks are whitespace too
RECURSIVE TrimEndText(_)
TrimEndText(t) ==
  IF Len(t) = 1 THEN <<TrimEndLine(t[1])>>
  ELSE IF AllWhitespace(t[Len(t)])
       THEN TrimEndText(SubSeq(t, 1, Len(t) - 1))
       ELSE SubSeq(t, 1, Len(t) - 1) \o <<TrimEndLine(t[Len(t)])>>

RECURSIVE TrimStartText(_)
TrimStartText(t) ==
  IF Len(t) = 1 THEN <<TrimStartLine(t[1])>>
  ELSE IF AllWhitespace(t[1])
       THEN TrimStartText(Tail(t))
       ELSE <<TrimStartLine(t[1])>> \o Tail(t)

TrimText(t) == TrimStartText(TrimEndText(t))

\* array.join(sep) on an array of strings
RECURSIVE JoinTexts(_, _)
JoinTexts(texts, sep) ==
  IF texts = <<>> THEN EmptyText
  ELSE IF Len(texts) = 1 THEN texts[1]
  ELSE Concat(Concat(texts[1], sep), JoinTexts(Tail(texts), sep))

(***************************************************************************)
(* parseSections                                                           *)
(***************************************************************************)
\* the policy with a fourth header
PRESERVED_SECTIONS_WithNotes ==
  {<<"About This Project">>, <<"Pending TODOs">>, <<"Architecture Rules">>, <<"Notes">>}

PRESERVED_SECTIONS ==
  { <<"About This Project">>, <<"Pending TODOs">>, <<"Architecture Rules">> }

\* length of the run of '#' characters of line that starts at position from
RECURSIVE HashRun(_, _)
HashRun(line, from) ==
  IF from > Len(line) \/ line[from] # "#" THEN 0
  ELSE 1 + HashRun(line, from + 1)

\* length of the run of whitespace of line that starts at position from
RECURSIVE WhitespaceRun(_, _)
WhitespaceRun(line, from) ==
  IF from > Len(line) \/ ~IsWhitespace(line[from]) THEN 0
  ELSE 1 + WhitespaceRun(line, from + 1)

\* line.match(/^(#{1,6})\s+(.+)$/): the hashes are the whole leading run; \s+ is
\* greedy and gives back its last character only when nothing else is left for .+
matchHeading(line) ==
  LET h == HashRun(line, 1)
      w == WhitespaceRun(line, h + 1)
  IN  IF h >= 1 /\ h <= 6 /\ w >= 1 /\ Len(line) >= h + 2
      THEN [matched |-> TRUE,
            g1 |-> SubSeq(line, 1, h),
            g2 |-> IF h + w < Len(line)
                   THEN SubSeq(line, h + w + 1, Len(line))
                   ELSE <<line[Len(line)]>>]
      ELSE [matched |-> FALSE, g1 |-> <<>>, g2 |-> <<>>]

ParseStart ==
  [sections |-> <<>>, currentSectionHeader |-> <<>>, currentSectionLevel |-> 0,
   currentContent |-> <<>>, inSection |-> FALSE]

\* the content pushed as accumulated, without trimEnd()
CurrentSection_Untrimmed(st) ==
  [header |-> st.currentSectionHeader,
   level |-> st.currentSectionLevel,
   content |-> st.currentContent]

CurrentSection(st) ==
  [header |-> st.currentSectionHeader,
   level |-> st.currentSectionLevel,
   content |-> TrimEndText(st.currentContent)]

\* a line before the first heading opens a section of its own
ParseLine_KeepPreamble(st, line) ==
  LET match == matchHeading(line)
  IN  IF match.matched
      THEN [sections |-> IF st.inSection \/ st.currentSectionHeader # <<>>
                         THEN Append(st.sections, CurrentSection(st))
                         ELSE st.sections,
            currentSectionHeader |-> TrimLine(match.g2),
            currentSectionLevel |-> Len(match.g1),
            currentContent |-> <<line>>,
            inSection |-> TRUE]
      ELSE [st EXCEPT !.currentContent = Append(@, line), !.inSection = TRUE]

\* one iteration of the for loop
ParseLine(st, line) ==
  LET match == matchHeading(line)
  IN  IF match.matched
      THEN [sections |-> IF st.inSection \/ st.currentSectionHeader # <<>>
                         THEN Append(st.sections, CurrentSection(st))
                         ELSE st.sections,
            currentSectionHeader |-> TrimLine(match.g2),
            currentSectionLevel |-> Len(match.g1),
            currentContent |-> <<line>>,
            inSection |-> TRUE]
      ELSE IF st.inSection
           THEN [st EXCEPT !.currentContent = Append(@, line)]
           ELSE st

\* the for loop: st is the state before line i.  The test on st.inSection, always
\* true, makes TLC compute the state of each iteration before the next one.
RECURSIVE ParseLoop(_, _, _)
ParseLoop(st, lines, i) ==
  IF st.inSection \in BOOLEAN /\ i <= Len(lines)
  THEN ParseLoop(ParseLine(st, lines[i]), lines, i + 1)
  ELSE st

\* the push after the loop
ParseFinish(st) ==
  IF st.inSection /\ st.currentSectionHeader # <<>>
  THEN Append(st.sections, CurrentSection(st))
  ELSE st.sections

parseSections(markdown) == ParseFinish(ParseLoop(ParseStart, markdown, 1))

(***************************************************************************)
(* extractPreservedData                                                    *)
(***************************************************************************)
HeaderAbout == <<"About This Project">>
HeaderRules == <<"Architecture Rules">>
HeaderTodos == <<"Pending TODOs">>

\* sections.find((s) => s.header === header): the index of the first section
\* with that header, 0 for undefined
FindSection(sections, header) ==
  IF \E i \in 1..Len(sections) : sections[i].header = header
  THEN CHOOSE i \in 1..Len(sections) :
         /\ sections[i].header = header
         /\ \A j \in 1..(i - 1) : sections[j].header # header
  ELSE 0

\* lines.join('\n') for an array of lines, the empty array included
JoinLines(lines) == IF lines = <<>> THEN EmptyText ELSE lines

\* the content without slice(1)
DescriptionOf_WithHeading(content) == TrimText(content)

\* content.split('\n').slice(1).join('\n').trim()
DescriptionOf(content) == TrimText(JoinLines(Tail(content)))

\* l.startsWith('- '), without trim()
IsBullet_Untrimmed(l) == Len(l) >= 2 /\ l[1] = "-" /\ l[2] = " "

\* l.trim().startsWith('- ')
IsBullet(l) ==
  LET t == TrimLine(l) IN Len(t) >= 2 /\ t[1] = "-" /\ t[2] = " "

\* l.trim().slice(2).trim()
BulletText(l) ==
  LET t == TrimLine(l) IN TrimLine(SubSeq(t, 3, Len(t)))

\* content.split('\n').filter(...).map(...)
RulesOf(content) ==
  LET kept == SelectSeq(content, IsBullet)
  IN  [i \in 1..Len(kept) |-> BulletText(kept[i])]

\* l.trim().match(/^- \[[ x]\]/)
IsCheckbox(l) ==
  LET t == TrimLine(l)
  IN  /\ Len(t) >= 5
      /\ t[1] = "-" /\ t[2] = " " /\ t[3] = "["
      /\ t[4] \in {" ", "x"}
      /\ t[5] = "]"

\* l.trim().match(/^- \[[ x]\]\s*(.+)$/): m ? m[1].trim() : ''
CheckboxText(l) ==
  LET t == TrimLine(l)
      w == WhitespaceRun(t, 6)
  IN  IF Len(t) >= 6
      THEN TrimLine(IF 5 + w < Len(t) THEN SubSeq(t, 6 + w, Len(t))
                                      ELSE <<t[Len(t)]>>)
      ELSE <<>>

NonEmptyLine(l) == l # <<>>

\* content.split('\n').filter(...).map(...).filter(Boolean)
TodosOf(content) ==
  LET kept == SelectSeq(content, IsCheckbox)
  IN  SelectSeq([i \in 1..Len(kept) |-> CheckboxText(kept[i])], NonEmptyLine)

extractPreservedData(content) ==
  LET sections == parseSections(content)
      aboutSection == FindSection(sections, HeaderAbout)
      archSection == FindSection(sections, HeaderRules)
      todoSection == FindSection(sections, HeaderTodos)
  IN  [description |-> IF aboutSection # 0
                       THEN DescriptionOf(sections[aboutSection].content)
                       ELSE EmptyText,
       architectureRules |-> IF archSection # 0
                             THEN RulesOf(sections[archSection].content)
                             ELSE <<>>,
       todos |-> IF todoSection # 0
                 THEN TodosOf(sections[todoSection].content)
                 ELSE <<>>]

(***************************************************************************)
(* merge                                                                   *)
(***************************************************************************)
\* a Map<string, Section> is a function on the set of its keys
EmptyMap == [h \in {} |-> 0]

MapHas(map, key) == key \in DOMAIN map

\* a set that keeps the entry the key already has
MapSet_KeepFirst(map, key, value) ==
  [h \in DOMAIN map \cup {key} |-> IF h \in DOMAIN map THEN map[h] ELSE value]

\* map.set(key, value): a later set overwrites an earlier one
MapSet(map, key, value) ==
  [h \in DOMAIN map \cup {key} |-> IF h = key THEN value ELSE map[h]]

\* for (const section of sections) map.set(section.header, section)
RECURSIVE SectionsMap(_, _)
SectionsMap(map, sections) ==
  IF sections = <<>> THEN map
  ELSE SectionsMap(MapSet(map, sections[1].header, sections[1]), Tail(sections))

\* the loop body without the preservation branch
SelectSection_AlwaysNew(existingSectionsMap, newSection) == newSection

\* the loop body without the PRESERVED_SECTIONS test
SelectSection_AnyHeader(existingSectionsMap, newSection) ==
  IF MapHas(existingSectionsMap, newSection.header)
  THEN existingSectionsMap[newSection.header]
  ELSE newSection

\* the existing section taken only when its heading has the level of the new one
SelectSection_SameLevel(existingSectionsMap, newSection) ==
  IF newSection.header \in PRESERVED_SECTIONS
  THEN IF MapHas(existingSectionsMap, newSection.header)
          /\ existingSectionsMap[newSection.header].level = newSection.level
       THEN existingSectionsMap[newSection.header]
       ELSE newSection
  ELSE newSection

\* the body of the loop over newSections: the section it pushes
SelectSection(existingSectionsMap, newSection) ==
  IF newSection.header \in PRESERVED_SECTIONS
  THEN IF MapHas(existingSectionsMap, newSection.header)
       THEN existingSectionsMap[newSection.header]
       ELSE newSection
  ELSE newSection

\* the loop over newSections with unshift in place of push
TemplateSections_Unshift(existingSectionsMap, newSections) ==
  [i \in 1..Len(newSections) |->
     IF newSections[Len(newSections) + 1 - i].header \in PRESERVED_SECTIONS
        /\ MapHas(existingSectionsMap, newSections[Len(newSections) + 1 - i].header)
     THEN existingSectionsMap[newSections[Len(newSections) + 1 - i].header]
     ELSE newSections[Len(newSections) + 1 - i]]

RECURSIVE TemplateSections(_, _)
TemplateSections(existingSectionsMap, newSections) ==
  IF newSections = <<>> THEN <<>>
  ELSE <<SelectSection(existingSectionsMap, newSections[1])>>
         \o TemplateSections(existingSectionsMap, Tail(newSections))

\* the guard without the comparison of the header with itself
AppendGuard_NotIncluded(newSectionsMap, finalSections, existingSection) ==
  ~(\/ MapHas(newSectionsMap, existingSection.header)
    \/ \E i \in 1..Len(finalSections) :
         finalSections[i].header = existingSection.header)

\* the guard of the append loop, as written
AppendGuard(newSectionsMap, finalSections, existingSection) ==
  LET alreadyIncluded ==
        \/ MapHas(newSectionsMap, existingSection.header)
        \/ \E i \in 1..Len(finalSections) :
             finalSections[i].header = existingSection.header
  IN  ~alreadyIncluded /\ existingSection.header # existingSection.header

RECURSIVE AppendCustom(_, _, _)
AppendCustom(newSectionsMap, finalSections, existingSections) ==
  IF existingSections = <<>> THEN finalSections
  ELSE AppendCustom(
         newSectionsMap,
         IF AppendGuard(newSectionsMap, finalSections, existingSections[1])
         THEN Append(finalSections, existingSections[1])
         ELSE finalSections,
         Tail(existingSections))

\* finalSections when merge reaches its return statement
FinalSections(existing, new) ==
  LET existingSections == parseSections(existing)
      newSections == parseSections(new)
      newSectionsMap == SectionsMap(EmptyMap, newSections)
      existingSectionsMap == SectionsMap(EmptyMap, existingSections)
  IN  AppendCustom(newSectionsMap,
                   TemplateSections(existingSectionsMap, newSections),
                   existingSections)

Contents(sections) == [i \in 1..Len(sections) |-> sections[i].content]

BlankLineText == <<Blank, Blank, Blank>>

\* the join without the final line break
JoinSections_NoFinalNewline(sections) ==
  JoinTexts(Contents(sections), BlankLineText)

\* finalSections.map((s) => s.content).join('\n\n') + '\n'
JoinSections(sections) ==
  Concat(JoinTexts(Contents(sections), BlankLineText), NewlineText)

merge(existing, new) == JoinSections(FinalSections(existing, new))

(***************************************************************************)
(* updateTimestamp                                                         *)
(***************************************************************************)
\* "> Auto-generated by flight-dispatcher on " and ". Re-run"
BannerPrefix == <<">", " ", "Auto-generated by flight-dispatcher on", " ">>
BannerSuffix == <<".", " ", "Re-run">>

\* whether pat occurs in line at position i
OccursAt(line, i, pat) ==
  /\ i >= 1
  /\ i + Len(pat) - 1 <= Len(line)
  /\ SubSeq(line, i, i + Len(pat) - 1) = pat

\* .*? in place of .+?: the suffix may follow the prefix at once
SuffixStarts_AllowEmpty(line, i) ==
  {j \in (i + Len(BannerPrefix))..Len(line) : OccursAt(line, j, BannerSuffix)}

\* .+?\. Re-run after a prefix found at i: the positions where the suffix may
\* start leave at least one character for .+?, and the lazy quantifier takes the
\* first of them
SuffixStarts(line, i) ==
  {j \in (i + Len(BannerPrefix) + 1)..Len(line) : OccursAt(line, j, BannerSuffix)}

\* the positions of line where the whole pattern matches
MatchStarts(line) ==
  {i \in 1..Len(line) : OccursAt(line, i, BannerPrefix) /\ SuffixStarts(line, i) # {}}

\* the leftmost match taken as the last one
Least_Greatest(S) == CHOOSE x \in S : \A y \in S : x >= y

Least(S) == CHOOSE x \in S : \A y \in S : x <= y

\* the replacement string of replace(): "$$" stands for "$" and "$&" for the
\* matched substring; the pattern has no capture group, so "$" before any other
\* character of the strings modelled here is literal
RECURSIVE GetSubstitution(_, _)
GetSubstitution(matched, replacement) ==
  IF replacement = <<>> THEN <<>>
  ELSE IF replacement[1] = "$" /\ Len(replacement) >= 2 /\ replacement[2] = "$"
       THEN <<"$">> \o GetSubstitution(matched, SubSeq(replacement, 3, Len(replacement)))
       ELSE IF replacement[1] = "$" /\ Len(replacement) >= 2 /\ replacement[2] = "&"
            THEN matched \o GetSubstitution(matched, SubSeq(replacement, 3, Len(replacement)))
            ELSE <<replacement[1]>> \o GetSubstitution(matched, Tail(replacement))

\* content.replace(/> Auto-generated by flight-dispatcher on .+?\. Re-run/, ...):
\* no g flag, so only the leftmost match is replaced; . matches no line break, so
\* a match lies within one line.  date is a string without line breaks.
updateTimestamp(content, date) ==
  LET matching == {k \in 1..Len(content) : MatchStarts(content[k]) # {}}
  IN  IF matching = {} THEN content
      ELSE LET k == Least(matching)
               line == content[k]
               i == Least(MatchStarts(line))
               j == Least(SuffixStarts(line, i))
               matched == SubSeq(line, i, j + Len(BannerSuffix) - 1)
           IN  [content EXCEPT ![k] =
                  SubSeq(line, 1, i - 1)
                    \o GetSubstitution(matched, BannerPrefix \o date \o BannerSuffix)
                    \o SubSeq(line, j + Len(BannerSuffix), Len(line))]

(***************************************************************************)
(* writeHooks, generateHookScript (hooks.ts) and sh running a script       *)
(***************************************************************************)
\* hooks.filter by trigger, in the order of config.hooks: byTrigger.get(trigger)
EntriesOf(hooks, trigger) ==
  LET OfTrigger(hook) == hook.trigger = trigger IN SelectSeq(hooks, OfTrigger)

blockWord(trigger) ==
  IF trigger = "pre-push" THEN "Push"
  ELSE IF trigger = "pre-commit" THEN "Commit" ELSE "Operation"

\* the nine lines generateHookScript pushes for one entry; the label goes into
\* the comment and between the double quotes of the two echo lines as it is
EntryLines(trigger, entry) ==
  << <<"#", " ", "--", " ">> \o entry.label \o <<" ", "--">>,
     <<"echo", " ", "\"", "Running:", " ">> \o entry.label \o <<"...", "\"">>,
     entry.command,
     <<"if [ $? -ne 0 ]; then">>,
     <<" ", " ", "echo", " ", "\"", "\"">>,
     <<" ", " ", "echo", " ", "\"", "x", " ", " ">> \o entry.label
       \o <<" ", "failed.", " ", blockWord(trigger), " ", "aborted.", "\"">>,
     <<" ", " ", "exit", " ", "1">>,
     <<"fi">>,
     Blank >>

RECURSIVE AllEntryLines(_, _)
AllEntryLines(trigger, entries) ==
  IF entries = <<>> THEN <<>>
  ELSE EntryLines(trigger, entries[1]) \o AllEntryLines(trigger, Tail(entries))

\* lines.join('\n') + '\n'
generateHookScript(trigger, entries) ==
  << <<"#", "!/bin/sh">>,
     <<"#", " ", "Generated by flight-dispatcher", " ", trigger>>,
     <<"#", " ", "Re-run to regenerate">>,
     Blank >>
  \o AllEntryLines(trigger, entries)
  \o << <<"exit", " ", "0">>, Blank >>

NoHookFiles == [t \in {} |-> <<>>]

\* writeHooks(config): the scripts in .git/hooks afterwards
writeHooks(hooks, dirExists, files) ==
  IF hooks = <<>> \/ ~dirExists THEN files
  ELSE LET triggers == {hooks[i].trigger : i \in 1..Len(hooks)}
       IN  [t \in DOMAIN files \cup triggers |->
              IF t \in triggers THEN generateHookScript(t, EntriesOf(hooks, t))
              ELSE files[t]]

\* sh: the double quotes of a line
RECURSIVE QuoteCount(_)
QuoteCount(line) ==
  IF line = <<>> THEN 0
  ELSE (IF line[1] = "\"" THEN 1 ELSE 0) + QuoteCount(Tail(line))

RECURSIVE QuotesIn(_, _, _)
QuotesIn(script, from, to) ==
  IF from > to THEN 0 ELSE QuoteCount(script[from]) + QuotesIn(script, from + 1, to)

\* sh: the line on which the command that starts on line ip ends: a double quote
\* left open takes the following lines into the word; 0 when it is never closed
CommandEnd(script, ip) ==
  LET ends == {e \in ip..Len(script) : QuotesIn(script, ip, e) % 2 = 0}
  IN  IF ends = {} THEN 0 ELSE Least(ends)

FirstWord(line) ==
  LET t == TrimStartLine(line) IN IF t = <<>> THEN "" ELSE t[1]

\* the line after the fi that closes the if on line ip
AfterFi(script, ip) ==
  Least({e \in (ip + 1)..Len(script) : FirstWord(script[e]) = "fi"}) + 1

ExitCode(line) ==
  LET t == TrimStartLine(line) IN IF t[Len(t)] = "0" THEN 0 ELSE 1

Running == 0 - 1

ShellIdle ==
  [trigger |-> "none", script |-> <<>>, ip |-> 0, status |-> 0, ran |-> <<>>, exit |-> Running]

\* the exit statuses a command of a hook may end with
CommandStatuses == {0, 1, 2}

(***************************************************************************)
(* The engine called on arbitrary documents                                *)
(***************************************************************************)
\* lines of the existing document plus lines of the new document
MaxLines == 4

LineAbout == <<"#", "#", " ", "About This Project">>
LineTech == <<"#", "#", " ", "Tech Stack">>
LineNotes == <<"#", "#", " ", "Notes">>
LineHashOnly == <<"#", " ", " ">>
LineX == <<"x">>
LineY == <<"y", " ">>

EngineLines == {LineAbout, LineTech, LineNotes, LineHashOnly, LineX, LineY, Blank}

NoPreserved == [description |-> EmptyText, architectureRules |-> <<>>, todos |-> <<>>]

\* the state of the command line run before any run
NoFile == <<>>
Null == <<>>
NoProfile == "none"
NoFlags == [update |-> FALSE, dryRun |-> FALSE, silent |-> FALSE, resetProfile |-> FALSE]
NoAnswers ==
  [description |-> EmptyText, deploymentTarget |-> "Unknown",
   architectureRules |-> <<>>, todos |-> <<>>]

CliAtRest ==
  /\ flags = NoFlags
  /\ today = <<"2026-01-01">>
  /\ outputFile = NoFile
  /\ fileBefore = NoFile
  /\ profileFile = NoProfile
  /\ profile = NoProfile
  /\ answers = NoAnswers
  /\ hooksConfig = <<>>
  /\ gitHooksDir = FALSE
  /\ written = {}
  /\ prompted = {}
  /\ runs = 0
  /\ hookFiles = NoHookFiles
  /\ shell = ShellIdle

Init ==
  /\ \E a \in 1..(MaxLines - 1) : \E b \in 1..(MaxLines - a) :
       /\ existingContent \in [1..a -> EngineLines]
       /\ newContent \in [1..b -> EngineLines]
  /\ pc = "start"
  /\ emitted = <<>>
  /\ finalContent = EmptyText
  /\ preserved = NoPreserved
  /\ reparsed = <<>>
  /\ CliAtRest

\* merge(existingContent, newContent)
Merge ==
  /\ pc = "start"
  /\ emitted' = FinalSections(existingContent, newContent)
  /\ finalContent' = merge(existingContent, newContent)
  /\ pc' = "merged"
  /\ UNCHANGED <<existingContent, newContent, preserved, reparsed, cliVars, hookVars>>

\* extractPreservedData(existingContent)
Extract ==
  /\ pc = "start"
  /\ preserved' = extractPreservedData(existingContent)
  /\ pc' = "extracted"
  /\ UNCHANGED <<existingContent, newContent, emitted, finalContent, reparsed, cliVars, hookVars>>

\* parseSections(finalContent) on what merge returned
Reparse ==
  /\ pc = "merged"
  /\ reparsed' = parseSections(finalContent)
  /\ pc' = "reparsed"
  /\ UNCHANGED <<existingContent, newContent, emitted, finalContent, preserved, cliVars, hookVars>>

Next == Merge \/ Extract \/ Reparse

Spec == Init /\ [][Next]_vars

(***************************************************************************)
(* extractPreservedData called on documents with rules and todos           *)
(***************************************************************************)
\* lines of the document given to extractPreservedData
MaxExtractLines == 4

LineRules == <<"#", "#", " ", "Architecture Rules">>
LineTodos == <<"#", "#", " ", "Pending TODOs">>
LineRuleX == <<"-", " ", "Use X">>
LineRuleIndented == <<" ", "-", " ", " ", "Use Y", "\t">>
LineTodoOpen == <<"-", " ", "[", " ", "]", " ", "A">>
LineTodoDone == <<"\t", "-", " ", "[", "x", "]", " ", " ", "B", " ">>
LineTodoUpper == <<"-", " ", "[", "X", "]", " ", "C">>
LineTodoEmpty == <<"-", " ", "[", " ", "]", " ">>
LineTodoTight == <<"-", " ", "[", " ", "]", "D">>
LineText == <<"text">>

ExtractLines ==
  {LineAbout, LineRules, LineTodos, LineRuleX, LineRuleIndented, LineTodoOpen,
   LineTodoDone, LineTodoUpper, LineTodoEmpty, LineTodoTight, LineText, Blank}

ExtractInit ==
  /\ \E n \in 1..MaxExtractLines : existingContent \in [1..n -> ExtractLines]
  /\ newContent = EmptyText
  /\ pc = "start"
  /\ emitted = <<>>
  /\ finalContent = EmptyText
  /\ preserved = NoPreserved
  /\ reparsed = <<>>
  /\ CliAtRest

ExtractNext == Extract

ExtractSpec == ExtractInit /\ [][ExtractNext]_vars

(***************************************************************************)
(* parseSections called on documents with headings of every kind          *)
(***************************************************************************)
\* lines of the document given to parseSections
MaxParseLines == 4

LineLevel1 == <<"#", " ", "Title">>
LineLevel6 == <<"#", "#", "#", "#", "#", "#", "\t", "Deep", " ">>
LineLevel7 == <<"#", "#", "#", "#", "#", "#", "#", " ", "Deep">>
LineNoSpace == <<"#", "Title">>
LineIndented == <<" ", "#", " ", "Title">>
LineTwoWords == <<"#", "#", " ", " ", "Title", " ", "#", " ", "Title">>

ParseLines ==
  {LineLevel1, LineLevel6, LineLevel7, LineNoSpace, LineIndented, LineTwoWords,
   LineHashOnly, LineText, Blank}

ParseInit ==
  /\ \E n \in 1..MaxParseLines : existingContent \in [1..n -> ParseLines]
  /\ newContent = EmptyText
  /\ pc = "start"
  /\ emitted = <<>>
  /\ finalContent = EmptyText
  /\ preserved = NoPreserved
  /\ reparsed = <<>>
  /\ CliAtRest

\* parseSections(existingContent)
Parse ==
  /\ pc = "start"
  /\ reparsed' = parseSections(existingContent)
  /\ pc' = "parsed"
  /\ UNCHANGED <<existingContent, newContent, emitted, finalContent, preserved,
                 cliVars, hookVars>>

ParseNext == Parse

ParseSpec == ParseInit /\ [][ParseNext]_vars

(***************************************************************************)
(* Repeated updates: each result of merge is the existing document of the  *)
(* next call                                                               *)
(***************************************************************************)
\* lines of the first existing document
MaxUpdateLines == 3
\* calls of merge in one behaviour
MaxUpdates == 2

LineAboutDeep == <<"#", "#", "#", " ", "About This Project">>
LineAboutTop == <<"#", " ", "About This Project">>
LineDetails == <<"#", "#", "#", " ", "Details">>

UpdateLines == {LineAbout, LineAboutDeep, LineDetails, LineX, LineY, Blank}

\* the new documents: each has a section headed About This Project
UpdateNews ==
  {<<LineAbout, LineX>>,
   <<LineTech, LineAboutTop, LineY, LineAbout>>,
   <<LineAbout, LineHashOnly, LineTech>>}

\* fileBefore keeps the existing document of the first call
UpdateInit ==
  /\ \E n \in 1..MaxUpdateLines : existingContent \in [1..n -> UpdateLines]
  /\ fileBefore = existingContent
  /\ newContent = EmptyText
  /\ pc = "start"
  /\ emitted = <<>>
  /\ finalContent = EmptyText
  /\ preserved = NoPreserved
  /\ reparsed = <<>>
  /\ flags = NoFlags
  /\ today = <<"2026-01-01">>
  /\ outputFile = NoFile
  /\ profileFile = NoProfile
  /\ profile = NoProfile
  /\ answers = NoAnswers
  /\ hooksConfig = <<>>
  /\ gitHooksDir = FALSE
  /\ written = {}
  /\ prompted = {}
  /\ runs = 0
  /\ hookFiles = NoHookFiles
  /\ shell = ShellIdle

\* merge(existing, new), existing being the result of the call before
Update ==
  /\ runs < MaxUpdates
  /\ \E new \in UpdateNews :
       LET existing == IF runs = 0 THEN existingContent ELSE finalContent
       IN  /\ existingContent' = existing
           /\ newContent' = new
           /\ emitted' = FinalSections(existing, new)
           /\ finalContent' = merge(existing, new)
  /\ runs' = runs + 1
  /\ pc' = "updated"
  /\ UNCHANGED <<preserved, reparsed, flags, today, outputFile, fileBefore, profileFile,
                 profile, answers, hooksConfig, gitHooksDir, written, prompted,
                 hookVars>>

UpdateNext == Update

UpdateSpec == UpdateInit /\ [][UpdateNext]_vars

(***************************************************************************)
(* updateTimestamp called on arbitrary texts and dates                     *)
(***************************************************************************)
\* pieces a text given to updateTimestamp is put together from
MaxPieces == 5

PieceBanner == <<BannerPrefix \o <<"2025-12-31">> \o BannerSuffix>>

StampPieces == {<<BannerPrefix>>, <<BannerSuffix>>, <<<<"old">>>>, NewlineText, PieceBanner}

\* a formatted date, and strings that hold replacement patterns
StampDates == {<<"2026-01-01">>, <<"$", "&">>, <<"2026", "$", "$">>}

StampInit ==
  /\ \E n \in 1..MaxPieces : \E pieces \in [1..n -> StampPieces] :
       existingContent = JoinTexts(pieces, EmptyText)
  /\ newContent = EmptyText
  /\ pc = "start"
  /\ emitted = <<>>
  /\ finalContent = EmptyText
  /\ preserved = NoPreserved
  /\ reparsed = <<>>
  /\ flags = NoFlags
  /\ today \in StampDates
  /\ outputFile = NoFile
  /\ fileBefore = NoFile
  /\ profileFile = NoProfile
  /\ profile = NoProfile
  /\ answers = NoAnswers
  /\ hooksConfig = <<>>
  /\ gitHooksDir = FALSE
  /\ written = {}
  /\ prompted = {}
  /\ runs = 0
  /\ hookFiles = NoHookFiles
  /\ shell = ShellIdle

\* updateTimestamp(existingContent, today)
Stamp ==
  /\ pc = "start"
  /\ finalContent' = updateTimestamp(existingContent, today)
  /\ pc' = "stamped"
  /\ UNCHANGED <<existingContent, newContent, emitted, preserved, reparsed, cliVars, hookVars>>

StampNext == Stamp

StampSpec == StampInit /\ [][StampNext]_vars

(***************************************************************************)
(* Hook scripts written by writeHooks and run by git                       *)
(***************************************************************************)
\* entries of config.hooks
MaxHooks == 3

\* two presets, a custom hook, and a custom hook whose description holds one
\* double quote
HookEntries ==
  {[trigger |-> "pre-commit", label |-> <<"Lint before commit">>,
    command |-> <<"npm run lint">>],
   [trigger |-> "pre-push", label |-> <<"Build before push">>,
    command |-> <<"npm run build">>],
   [trigger |-> "pre-commit", label |-> <<"Run security scan">>,
    command |-> <<"npm run security:scan">>],
   [trigger |-> "pre-commit", label |-> <<"Check", " ", "5", "\"", " ", "margins">>,
    command |-> <<"npm run margins">>]}

HookInit ==
  /\ existingContent = Null
  /\ newContent = EmptyText
  /\ pc = "configured"
  /\ emitted = <<>>
  /\ finalContent = EmptyText
  /\ preserved = NoPreserved
  /\ reparsed = <<>>
  /\ flags = NoFlags
  /\ today = <<"2026-01-01">>
  /\ outputFile = NoFile
  /\ fileBefore = NoFile
  /\ profileFile = NoProfile
  /\ profile = NoProfile
  /\ answers = NoAnswers
  /\ \E n \in 1..MaxHooks : hooksConfig \in [1..n -> HookEntries]
  /\ gitHooksDir \in BOOLEAN
  /\ written = {}
  /\ prompted = {}
  /\ runs = 0
  /\ hookFiles = NoHookFiles
  /\ shell = ShellIdle

\* writeHooks(hooksConfig)
InstallHooks ==
  /\ pc = "configured"
  /\ hookFiles' = writeHooks(hooksConfig, gitHooksDir, hookFiles)
  /\ written' = IF gitHooksDir THEN written \cup {"hooks"} ELSE written
  /\ pc' = "installed"
  /\ UNCHANGED <<engineVars_but_pc, flags, today, outputFile, fileBefore, profileFile,
                 profile, answers, hooksConfig, gitHooksDir, prompted, runs, shell>>

\* git starts the script of a trigger
RunHook ==
  /\ pc = "installed"
  /\ \E trigger \in DOMAIN hookFiles :
       shell' = [trigger |-> trigger, script |-> hookFiles[trigger], ip |-> 1,
                 status |-> 0, ran |-> <<>>, exit |-> Running]
  /\ pc' = "running"
  /\ UNCHANGED <<engineVars_but_pc, cliVars, hookFiles>>

\* sh reads and runs the next command of the script
ShellStep ==
  /\ pc = "running"
  /\ LET script == shell.script
         ip == shell.ip
         word == IF ip <= Len(script) THEN FirstWord(script[ip]) ELSE ""
         end == IF ip <= Len(script) THEN CommandEnd(script, ip) ELSE 0
     IN  IF ip > Len(script)
         \* the end of the file: the status of the last command
         THEN shell' = [shell EXCEPT !.exit = shell.status]
         ELSE IF word \in {"", "#", "fi"}
         THEN shell' = [shell EXCEPT !.ip = ip + 1]
         ELSE IF end = 0
         \* a double quote that is never closed: a syntax error
         THEN shell' = [shell EXCEPT !.exit = 2]
         ELSE IF word = "echo"
         THEN shell' = [shell EXCEPT !.ip = end + 1, !.status = 0]
         ELSE IF word = "if [ $? -ne 0 ]; then"
         THEN shell' = [shell EXCEPT !.ip = IF shell.status # 0 THEN ip + 1
                                           ELSE AfterFi(script, ip),
                                     !.status = 0]
         ELSE IF word = "exit"
         THEN shell' = [shell EXCEPT !.exit = ExitCode(script[ip])]
         ELSE \E status \in CommandStatuses :
                shell' = [shell EXCEPT
                            !.ip = end + 1,
                            !.status = status,
                            !.ran = Append(@, [command |-> script[ip], status |-> status])]
  /\ pc' = IF shell'.exit # Running THEN "exited" ELSE "running"
  /\ UNCHANGED <<engineVars_but_pc, cliVars, hookFiles>>

HookNext == InstallHooks \/ RunHook \/ ShellStep

HookSpec == HookInit /\ [][HookNext]_vars

(***************************************************************************)
(* The generator (generator.ts): the canonical template of spec section 6  *)
(* and of the README's output example, filled with the run's answers.      *)
(***************************************************************************)
Heading2(header) == <<"#", "#", " ">> \o header

TitleLine == <<"#", " ", "Copilot Instructions">>

BannerLine(date) ==
  BannerPrefix \o date \o BannerSuffix \o <<" ", "npx flight-dispatcher to update.">>

BulletLines(items) == [i \in 1..Len(items) |-> <<"-", " ">> \o items[i]]

CheckboxLines(items) ==
  [i \in 1..Len(items) |-> <<"-", " ", "[", " ", "]", " ">> \o items[i]]

HookLines(hooks) ==
  [i \in 1..Len(hooks) |-> <<"-", " ", hooks[i].trigger, " ">> \o hooks[i].command]

generate(prof, ans, hooks, date) ==
  <<TitleLine, Blank, BannerLine(date), Blank>>
  \o <<Heading2(HeaderAbout)>> \o ans.description \o <<Blank>>
  \o <<Heading2(<<"Developer Preferences">>), <<"-", " ", prof>>, Blank>>
  \o <<Heading2(<<"Tech Stack">>), <<"-", " ", "detected stack">>, Blank>>
  \o <<Heading2(<<"Project Structure">>), <<"-", " ", "detected structure">>, Blank>>
  \o <<Heading2(HeaderRules)>> \o BulletLines(ans.architectureRules) \o <<Blank>>
  \o <<Heading2(<<"Copilot Behavior">>), <<"-", " ", "standing orders">>, Blank>>
  \o <<Heading2(<<"Deployment">>), <<"-", " ", ans.deploymentTarget>>, Blank>>
  \o <<Heading2(<<"Git Hooks">>)>> \o HookLines(hooks) \o <<Blank>>
  \o <<Heading2(HeaderTodos)>> \o CheckboxLines(ans.todos) \o <<Blank>>
  \o <<Heading2(<<"Known Conventions">>), <<"-", " ", "detected conventions">>, Blank>>

(***************************************************************************)
(* The command line run (cli.ts main, prompts.ts, hooks.ts, profile.ts)    *)
(***************************************************************************)
\* runs of the command line in one behaviour
MaxRuns == 2

Flags == [update : BOOLEAN, dryRun : BOOLEAN, silent : BOOLEAN, resetProfile : BOOLEAN]

\* formatDate() during the n-th run: a later run is on a later day
RunDates == <<<<"2026-01-01">>, <<"2026-02-02">>, <<"2026-03-03">>, <<"2026-04-04">>>>
RunDate(n) == RunDates[IF n <= Len(RunDates) THEN n ELSE Len(RunDates)]

\* createDefaultProfile() and what promptForProfile returns
DefaultProfile == "default profile"
PromptedProfile == "prompted profile"

\* what the user may type at the prompts
TypedDescription == <<<<"typed description">>>>
TypedRules == {<<>>, <<<<"typed rule">>>>}
TypedTodos == {<<>>, <<<<"typed todo">>>>}
HookChoices ==
  {<<>>,
   <<[trigger |-> "pre-commit", label |-> <<"Lint before commit">>,
      command |-> <<"npm run lint">>]>>}

\* the documents the output file may hold before the first run: none, an empty
\* file, a document of an earlier run with hand-edited sections, and a document
\* written by hand
EarlierAnswers ==
  [description |-> <<<<"hand-written description">>, Blank, <<"second paragraph">>>>,
   deploymentTarget |-> "Vercel",
   architectureRules |-> <<<<"hand-written rule">>>>,
   todos |-> <<<<"hand-written todo">>>>]

EarlierDocument == generate(DefaultProfile, EarlierAnswers, <<>>, <<"2025-12-31">>)

HandDocument ==
  <<Heading2(HeaderTodos), <<"-", " ", "[", "x", "]", " ", "done by hand">>,
    Heading2(<<"Notes">>), <<"kept by hand">>,
    Heading2(<<"Copilot Behavior">>), <<"-", " ", "order added by hand">>,
    Heading2(HeaderAbout), <<"hand-written description">>, Blank>>

InitialFiles == {NoFile, EmptyText, EarlierDocument, HandDocument}

\* a test for null only: the empty string taken as a document
Truthy_EmptyIsTrue(text) == text # Null

\* if (existingContent): null and the empty string are falsy
Truthy(text) == text # Null /\ text # EmptyText

\* Step 1 with --reset-profile prompting whatever --silent says
ProfileStep_ResetIgnoresSilent(f, loaded, shouldEdit) ==
  IF f.resetProfile
  THEN [profile |-> PromptedProfile, saved |-> TRUE, prompt |-> TRUE]
  ELSE IF loaded = NoProfile
       THEN [profile |-> DefaultProfile, saved |-> TRUE, prompt |-> ~f.silent]
       ELSE [profile |-> loaded, saved |-> FALSE, prompt |-> FALSE]

\* Step 1 of main: the profile it goes on with, whether saveProfile ran and
\* whether a prompt was put (shouldEdit is the answer to offerProfileEdit)
ProfileStep(f, loaded, shouldEdit) ==
  IF f.resetProfile /\ ~f.silent
  THEN [profile |-> PromptedProfile, saved |-> TRUE, prompt |-> TRUE]
  ELSE IF loaded = NoProfile
       THEN IF f.silent
            THEN [profile |-> DefaultProfile, saved |-> TRUE, prompt |-> FALSE]
            ELSE [profile |-> PromptedProfile, saved |-> TRUE, prompt |-> TRUE]
       ELSE IF ~f.update /\ ~f.silent
            THEN [profile |-> IF shouldEdit THEN PromptedProfile ELSE loaded,
                  saved |-> TRUE, prompt |-> TRUE]
            ELSE [profile |-> loaded, saved |-> FALSE, prompt |-> FALSE]

\* Step 3 of main: existingContent
ReadExisting(f, file) == IF f.update /\ file # NoFile THEN file ELSE Null

\* Step 6 of main: finalContent
FinalContent(f, existing, generated, date) ==
  IF Truthy(existing) /\ f.update
  THEN updateTimestamp(merge(existing, generated), date)
  ELSE generated

CliInit ==
  /\ existingContent = Null
  /\ newContent = EmptyText
  /\ pc = "idle"
  /\ emitted = <<>>
  /\ finalContent = EmptyText
  /\ preserved = NoPreserved
  /\ reparsed = <<>>
  /\ flags = NoFlags
  /\ today = <<"2026-01-01">>
  /\ outputFile \in InitialFiles
  /\ fileBefore = NoFile
  /\ profileFile \in {NoProfile, PromptedProfile}
  /\ profile = NoProfile
  /\ answers = NoAnswers
  /\ hooksConfig = <<>>
  /\ gitHooksDir \in BOOLEAN
  /\ written = {}
  /\ prompted = {}
  /\ runs = 0
  /\ hookFiles = NoHookFiles
  /\ shell = ShellIdle

\* main, Steps 1 to 3: flags, profile, detection, the existing document
CliStart ==
  /\ pc \in {"idle", "done"}
  /\ runs < MaxRuns
  /\ \E f \in Flags, shouldEdit \in BOOLEAN :
       LET step1 == ProfileStep(f, profileFile, shouldEdit)
           read == ReadExisting(f, outputFile)
       IN  /\ flags' = f
           /\ today' = RunDate(runs + 1)
           /\ profile' = step1.profile
           /\ profileFile' = IF step1.saved THEN step1.profile ELSE profileFile
           /\ written' = IF step1.saved THEN {"profile"} ELSE {}
           /\ prompted' = IF step1.prompt THEN {"profile"} ELSE {}
           /\ existingContent' = read
           /\ preserved' = IF Truthy(read) THEN extractPreservedData(read)
                                           ELSE NoPreserved
  /\ fileBefore' = outputFile
  /\ runs' = runs + 1
  /\ pc' = "questions"
  \* a new process: the locals of main hold nothing of the run before
  /\ newContent' = EmptyText
  /\ emitted' = <<>>
  /\ finalContent' = EmptyText
  /\ answers' = NoAnswers
  /\ hooksConfig' = <<>>
  /\ UNCHANGED <<reparsed, outputFile, gitHooksDir, hookVars>>

\* askProjectQuestions(detected, flags, preserved)
CliQuestions ==
  /\ pc = "questions"
  /\ IF flags.silent
     THEN /\ answers' = [description |-> preserved.description,
                         deploymentTarget |-> "Unknown",
                         architectureRules |-> preserved.architectureRules,
                         todos |-> preserved.todos]
          /\ UNCHANGED prompted
     ELSE /\ \E description \in
                  {TypedDescription}
                    \cup (IF preserved.description # EmptyText
                          THEN {preserved.description} ELSE {}),
                rules \in TypedRules, todos \in TypedTodos :
                answers' = [description |-> description,
                            deploymentTarget |-> "Not sure yet",
                            architectureRules |-> preserved.architectureRules \o rules,
                            todos |-> todos]
          /\ prompted' = prompted \cup {"questions"}
  /\ pc' = "hooks"
  /\ UNCHANGED <<existingContent, newContent, emitted, finalContent, preserved,
                 reparsed, flags, today, outputFile, fileBefore, profileFile, profile,
                 hooksConfig, gitHooksDir, written, runs, hookVars>>

\* askHookQuestions(detected.availableScripts, flags)
CliHooks ==
  /\ pc = "hooks"
  /\ IF flags.silent
     THEN hooksConfig' = <<>> /\ UNCHANGED prompted
     ELSE /\ hooksConfig' \in HookChoices
          /\ prompted' = prompted \cup {"hooks"}
  /\ pc' = "generate"
  /\ UNCHANGED <<existingContent, newContent, emitted, finalContent, preserved,
                 reparsed, flags, today, outputFile, fileBefore, profileFile, profile,
                 answers, gitHooksDir, written, runs, hookVars>>

\* main, Steps 5 to 7: generate, merge, output
CliGenerate ==
  /\ pc = "generate"
  /\ LET generated == generate(profile, answers, hooksConfig, today)
         merged == Truthy(existingContent) /\ flags.update
     IN  /\ newContent' = generated
         /\ emitted' = IF merged THEN FinalSections(existingContent, generated) ELSE <<>>
         /\ finalContent' = FinalContent(flags, existingContent, generated, today)
  /\ IF flags.dryRun
     THEN UNCHANGED <<outputFile, written, hookFiles>>
     ELSE /\ outputFile' = finalContent'
          /\ written' = written \cup {"output"}
                          \cup (IF hooksConfig # <<>> /\ gitHooksDir
                                THEN {"hooks"} ELSE {})
          /\ hookFiles' = writeHooks(hooksConfig, gitHooksDir, hookFiles)
  /\ pc' = "done"
  /\ UNCHANGED <<existingContent, preserved, reparsed, flags, today, fileBefore,
                 profileFile, profile, answers, hooksConfig, gitHooksDir, prompted, runs,
                 shell>>

CliNext == CliStart \/ CliQuestions \/ CliHooks \/ CliGenerate

CliSpec == CliInit /\ [][CliNext]_vars

(***************************************************************************)
(* Properties of merge                                                     *)
(***************************************************************************)
ExistingSections == parseSections(existingContent)
NewSections == parseSections(newContent)

Headers(sections) == [i \in 1..Len(sections) |-> sections[i].header]

HasHeader(sections, h) == \E j \in 1..Len(sections) : sections[j].header = h

\* the position of the last section headed h, in document order
LastWithHeader(sections, h) ==
  CHOOSE j \in 1..Len(sections) :
    /\ sections[j].header = h
    /\ \A k \in (j + 1)..Len(sections) : sections[k].header # h

\* the contents laid out line by line: one empty line after each section but the
\* last, and the line break that ends the document
RECURSIVE Interleaved(_)
Interleaved(contents) ==
  IF contents = <<>> THEN <<>>
  ELSE IF Len(contents) = 1 THEN contents[1]
  ELSE contents[1] \o <<Blank>> \o Interleaved(Tail(contents))

ExpectedDocument(contents) ==
  IF contents = <<>> THEN <<Blank, Blank>>
  ELSE Interleaved(contents) \o <<Blank>>

\* C1: at each position where the new document has a section with a policy header,
\* merge emits the content of a section of the existing document with that header
\* when there is one, and the new section's content unchanged when there is none.
C1_Preservation ==
  pc = "merged" =>
    /\ Len(emitted) >= Len(NewSections)
    /\ \A i \in 1..Len(NewSections) :
         NewSections[i].header \in PRESERVED_SECTIONS =>
           IF HasHeader(ExistingSections, NewSections[i].header)
           THEN \E j \in 1..Len(ExistingSections) :
                  /\ ExistingSections[j].header = NewSections[i].header
                  /\ emitted[i].content = ExistingSections[j].content
           ELSE emitted[i].content = NewSections[i].content

C1_Witness ==
  /\ pc = "merged"
  /\ \E i \in 1..Len(NewSections) :
       /\ NewSections[i].header \in PRESERVED_SECTIONS
       /\ HasHeader(ExistingSections, NewSections[i].header)
       /\ emitted[i].content # NewSections[i].content

\* C2: every section of the new document whose header is not a policy header is
\* emitted verbatim, whatever the existing document holds under that header.
C2_FreshSectionsWin ==
  pc = "merged" =>
    /\ Len(emitted) >= Len(NewSections)
    /\ \A i \in 1..Len(NewSections) :
         NewSections[i].header \notin PRESERVED_SECTIONS =>
           emitted[i] = NewSections[i]

C2_Witness ==
  /\ pc = "merged"
  /\ \E i \in 1..Len(NewSections) : \E j \in 1..Len(ExistingSections) :
       /\ NewSections[i].header \notin PRESERVED_SECTIONS
       /\ ExistingSections[j].header = NewSections[i].header
       /\ ExistingSections[j].content # NewSections[i].content
       /\ emitted[i].content = NewSections[i].content

C4_CustomSectionsAppended ==
  pc = "merged" =>
    \A j \in 1..Len(ExistingSections) :
      ~HasHeader(NewSections, ExistingSections[j].header) =>
        \E k \in (Len(NewSections) + 1)..Len(emitted) :
          emitted[k] = ExistingSections[j]

\* C6: when the existing document has several sections with the same policy
\* header, the content of the last of them is emitted wherever the new document
\* has that header.
C6_MergeLastWins ==
  pc = "merged" =>
    \A i \in 1..Len(NewSections) :
      (/\ NewSections[i].header \in PRESERVED_SECTIONS
       /\ HasHeader(ExistingSections, NewSections[i].header)) =>
        /\ i <= Len(emitted)
        /\ emitted[i].content =
             ExistingSections[LastWithHeader(ExistingSections,
                                             NewSections[i].header)].content

C6_Witness ==
  /\ pc = "merged"
  /\ \E i \in 1..Len(NewSections) :
       \E j, k \in 1..Len(ExistingSections) :
         /\ j < k
         /\ NewSections[i].header \in PRESERVED_SECTIONS
         /\ ExistingSections[j].header = NewSections[i].header
         /\ ExistingSections[k].header = NewSections[i].header
         /\ ExistingSections[j].content # ExistingSections[k].content
         /\ emitted[i].content = ExistingSections[k].content

\* C7: extractPreservedData takes the description, the rules and the todos from
\* the last section with the header, the section merge carries over.
C7_ExtractLastWins ==
  pc = "extracted" =>
    /\ HasHeader(ExistingSections, HeaderAbout) =>
         preserved.description =
           DescriptionOf(ExistingSections[LastWithHeader(ExistingSections,
                                                         HeaderAbout)].content)
    /\ HasHeader(ExistingSections, HeaderRules) =>
         preserved.architectureRules =
           RulesOf(ExistingSections[LastWithHeader(ExistingSections,
                                                   HeaderRules)].content)
    /\ HasHeader(ExistingSections, HeaderTodos) =>
         preserved.todos =
           TodosOf(ExistingSections[LastWithHeader(ExistingSections,
                                                   HeaderTodos)].content)

\* C8: merge("", newText) is the contents of parseSections(newText), in order, one
\* empty line between consecutive sections and one line break at the end.
C8_FirstRun ==
  (pc = "merged" /\ existingContent = EmptyText) =>
    /\ emitted = NewSections
    /\ finalContent = ExpectedDocument(Contents(NewSections))

C8_Witness ==
  /\ pc = "merged"
  /\ existingContent = EmptyText
  /\ Len(NewSections) >= 2
  /\ \E i \in 1..Len(NewSections) : NewSections[i].header \in PRESERVED_SECTIONS
  /\ finalContent = ExpectedDocument(Contents(NewSections))

\* C9: parsing what merge returned yields sections whose contents are, in order,
\* the contents of the sections merge emitted.
C9_ParseJoinIdempotent ==
  pc = "reparsed" =>
    /\ Contents(reparsed) = Contents(emitted)
    /\ ExpectedDocument(Contents(reparsed)) = finalContent

\* C10: merge returns, for every pair of inputs, the emitted contents separated by
\* exactly one empty line and ended by exactly one line break; when the existing
\* document has no sections the emitted sections are those of the new document.
C10_MergeTotal ==
  pc = "merged" =>
    /\ finalContent = ExpectedDocument(Contents(emitted))
    /\ \A i \in 1..Len(emitted) :
         LET c == emitted[i].content
         IN  /\ ~AllWhitespace(c[Len(c)])
             /\ c[1] # <<>> /\ c[1][1] = "#"
    /\ ExistingSections = <<>> => emitted = NewSections

C10_Witness ==
  /\ pc = "merged"
  /\ existingContent # EmptyText
  /\ ExistingSections = <<>>
  /\ Len(emitted) >= 2
  /\ \E i \in 1..Len(newContent) : AllWhitespace(newContent[i])
  /\ finalContent = ExpectedDocument(Contents(emitted))

(***************************************************************************)
(* Properties of the command line run                                      *)
(***************************************************************************)
\* the run has ended and has written the output file
WritingRunDone == pc = "done" /\ ~flags.dryRun

\* C5: after every run that writes the output file, each policy section the file
\* held before the run is in the written file with the content it had.
C5_NoClobbering ==
  (WritingRunDone /\ fileBefore # NoFile) =>
    \A h \in PRESERVED_SECTIONS :
      HasHeader(parseSections(fileBefore), h) =>
        /\ HasHeader(parseSections(outputFile), h)
        /\ parseSections(outputFile)[LastWithHeader(parseSections(outputFile), h)].content
             = parseSections(fileBefore)[LastWithHeader(parseSections(fileBefore), h)].content

(***************************************************************************)
(* Properties of updateTimestamp                                           *)
(***************************************************************************)
\* the banner pattern occurs in line from position i to the suffix at position j:
\* the prefix, at least one character, the suffix
BannerAt(line, i, j) ==
  /\ OccursAt(line, i, BannerPrefix)
  /\ j > i + Len(BannerPrefix)
  /\ OccursAt(line, j, BannerSuffix)

HasBanner(text) ==
  \E k \in 1..Len(text) : \E i, j \in 1..Len(text[k]) : BannerAt(text[k], i, j)

\* a date as the caller formats it: no replacement pattern in it
FormattedDate(date) == \A n \in 1..Len(date) : date[n] # "$"

\* C11: for every text that holds no occurrence of the banner prefix followed on
\* the same line by at least one character and the banner suffix, and for every
\* date, updateTimestamp returns the text unchanged.
C11_NoBannerNoChange ==
  (pc = "stamped" /\ ~HasBanner(existingContent)) => finalContent = existingContent

C11_Witness ==
  /\ pc = "stamped"
  /\ ~HasBanner(existingContent)
  /\ \E k \in 1..Len(existingContent) :
       /\ OccursAt(existingContent[k], 1, BannerPrefix \o BannerSuffix)
       /\ k < Len(existingContent)
       /\ OccursAt(existingContent[k + 1], 1, <<"old">> \o BannerSuffix)
  /\ ~FormattedDate(today)
  /\ finalContent = existingContent

\* C12: when the text holds the banner pattern and the date is a formatted date,
\* the result is the text with the span between the prefix of the first match and
\* the next suffix replaced by the date; every other line, and the rest of that
\* line before and after the span, is unchanged.
C12_FirstMatchOnly ==
  (pc = "stamped" /\ HasBanner(existingContent) /\ FormattedDate(today)) =>
    \E k \in 1..Len(existingContent) : \E i, j \in 1..Len(existingContent[k]) :
      /\ BannerAt(existingContent[k], i, j)
      /\ \A k2 \in 1..(k - 1) : ~HasBanner(<<existingContent[k2]>>)
      /\ \A i2 \in 1..(i - 1) :
           \A j2 \in 1..Len(existingContent[k]) : ~BannerAt(existingContent[k], i2, j2)
      /\ \A j2 \in 1..(j - 1) : ~BannerAt(existingContent[k], i, j2)
      /\ Len(finalContent) = Len(existingContent)
      /\ \A k2 \in 1..Len(existingContent) :
           k2 # k => finalContent[k2] = existingContent[k2]
      /\ finalContent[k] =
           SubSeq(existingContent[k], 1, i + Len(BannerPrefix) - 1)
             \o today
             \o SubSeq(existingContent[k], j, Len(existingContent[k]))

C12_Witness ==
  /\ pc = "stamped"
  /\ FormattedDate(today)
  /\ Len(existingContent) = 2
  /\ existingContent[1] = <<"old">> \o PieceBanner[1] \o BannerSuffix
  /\ existingContent[2] = PieceBanner[1]
  /\ finalContent[1] = <<"old">> \o BannerPrefix \o today \o BannerSuffix \o BannerSuffix
  /\ finalContent[2] = existingContent[2]

(***************************************************************************)
(* Properties of extractPreservedData                                      *)
(***************************************************************************)
\* the positions of the characters of line that are not whitespace
Inked(line) == {n \in 1..Len(line) : ~IsWhitespace(line[n])}

FirstInk(line) == CHOOSE n \in Inked(line) : \A m \in Inked(line) : n <= m
LastInk(line) == CHOOSE n \in Inked(line) : \A m \in Inked(line) : n >= m

\* the characters of line from position from on, without the whitespace around them
InkFrom(line, from) ==
  LET ink == {n \in Inked(line) : n >= from}
  IN  IF ink = {} THEN <<>>
      ELSE SubSeq(line, CHOOSE n \in ink : \A m \in ink : n <= m, LastInk(line))

\* the trimmed line starts with "- "
StartsWithDashSpace(line) ==
  /\ Inked(line) # {}
  /\ line[FirstInk(line)] = "-"
  /\ LastInk(line) > FirstInk(line) + 1
  /\ line[FirstInk(line) + 1] = " "

\* the n-th element of a set of line numbers, in document order
Nth(S, n) == CHOOSE x \in S : Cardinality({y \in S : y < x}) = n - 1

\* the texts of the lines of content that are in S, in document order
TextsOf(content, S, from) ==
  [n \in 1..Cardinality(S) |->
     InkFrom(content[Nth(S, n)], FirstInk(content[Nth(S, n)]) + from)]

\* C13: architectureRules is, in document order and with repetitions kept, the text
\* after "- " of every line of the Architecture Rules section whose trimmed form
\* starts with "- "; the heading line gives no rule.
C13_RuleExtraction ==
  (pc = "extracted" /\ HasHeader(ExistingSections, HeaderRules)) =>
    \E j \in 1..Len(ExistingSections) :
      LET content == ExistingSections[j].content
          bullets == {n \in 1..Len(content) : StartsWithDashSpace(content[n])}
      IN  /\ ExistingSections[j].header = HeaderRules
          /\ 1 \notin bullets
          /\ preserved.architectureRules = TextsOf(content, bullets, 2)

C13_Witness ==
  /\ pc = "extracted"
  /\ existingContent = <<LineRules, LineRuleX, LineRuleIndented, LineRuleX>>
  /\ preserved.architectureRules = <<<<"Use X">>, <<"Use Y">>, <<"Use X">>>>

\* the trimmed line is "- [ ]" or "- [x]", whitespace, and a text that is not empty
IsCheckboxBullet(line) ==
  /\ Inked(line) # {}
  /\ LET f == FirstInk(line)
     IN  /\ Len(line) >= f + 6
         /\ SubSeq(line, f, f + 2) = <<"-", " ", "[">>
         /\ line[f + 3] \in {" ", "x"}
         /\ line[f + 4] = "]"
         /\ IsWhitespace(line[f + 5])
         /\ LastInk(line) > f + 5

\* C14: todos is, in document order, the trimmed text of every line of the Pending
\* TODOs section whose trimmed form is "- [ ] text" or "- [x] text" with a text that
\* is not empty; no other line gives a todo and no todo is the empty string.
C14_TodoFilter ==
  (pc = "extracted" /\ HasHeader(ExistingSections, HeaderTodos)) =>
    \E j \in 1..Len(ExistingSections) :
      LET content == ExistingSections[j].content
          boxes == {n \in 1..Len(content) : IsCheckboxBullet(content[n])}
      IN  /\ ExistingSections[j].header = HeaderTodos
          /\ preserved.todos = TextsOf(content, boxes, 5)
          /\ \A n \in 1..Len(preserved.todos) : preserved.todos[n] # <<>>

\* the lines of text between its first and its last line that are not blank,
\* without the whitespace before the first and after the last character
Trimmed(text) ==
  LET inked == {n \in 1..Len(text) : Inked(text[n]) # {}}
  IN  IF inked = {} THEN EmptyText
      ELSE LET a == CHOOSE n \in inked : \A m \in inked : n <= m
               b == CHOOSE n \in inked : \A m \in inked : n >= m
           IN  [n \in 1..(b - a + 1) |->
                  LET line == text[a + n - 1]
                  IN  SubSeq(line,
                             IF n = 1 THEN FirstInk(line) ELSE 1,
                             IF n = b - a + 1 THEN LastInk(line) ELSE Len(line))]

\* C15: description is the content of the About This Project section without its
\* heading line, trimmed; for each of the three sections the document lacks, the
\* field is the empty default.
C15_DescriptionAndDefaults ==
  pc = "extracted" =>
    /\ IF HasHeader(ExistingSections, HeaderAbout)
       THEN \E j \in 1..Len(ExistingSections) :
              LET content == ExistingSections[j].content
              IN  /\ ExistingSections[j].header = HeaderAbout
                  /\ preserved.description =
                       (IF Len(content) = 1 THEN EmptyText
                        ELSE Trimmed(SubSeq(content, 2, Len(content))))
       ELSE preserved.description = EmptyText
    /\ ~HasHeader(ExistingSections, HeaderRules) => preserved.architectureRules = <<>>
    /\ ~HasHeader(ExistingSections, HeaderTodos) => preserved.todos = <<>>

C15_Witness ==
  /\ pc = "extracted"
  /\ existingContent = <<LineAbout, Blank, LineText, LineRuleIndented>>
  /\ preserved.description = <<LineText, <<" ", "-", " ", " ", "Use Y">>>>
  /\ preserved.architectureRules = <<>>
  /\ preserved.todos = <<>>

(***************************************************************************)
(* Properties of the hook scripts                                          *)
(***************************************************************************)
\* the commands of the entries of the trigger, in the order of the config
CommandsOf(hooks, trigger) ==
  [i \in 1..Len(EntriesOf(hooks, trigger)) |-> EntriesOf(hooks, trigger)[i].command]

\* C19: when the script of a trigger has ended, the commands it ran are the
\* commands of the trigger's entries in config order up to and including the first
\* that failed; it ended with status 1 when one failed, and with status 0 when, and
\* only when, all of them were run and succeeded.
C19_HookBlocksOnFailure ==
  pc = "exited" =>
    LET expected == CommandsOf(hooksConfig, shell.trigger)
        ran == shell.ran
        failed == {i \in 1..Len(ran) : ran[i].status # 0}
    IN  /\ Len(ran) <= Len(expected)
        /\ \A i \in 1..Len(ran) : ran[i].command = expected[i]
        /\ failed \subseteq {Len(ran)}
        /\ failed # {} => shell.exit = 1
        /\ failed = {} => (Len(ran) = Len(expected) /\ shell.exit = 0)

(***************************************************************************)
(* Properties of the command line run, continued                           *)
(***************************************************************************)
\* C16: in a run with --dry-run no file is written or modified: not the output
\* file, not a hook script, not the global profile.
C16_DryRunWritesNothing ==
  (pc \in {"questions", "hooks", "generate", "done"} /\ flags.dryRun) =>
    /\ written = {}
    /\ outputFile = fileBefore

\* C17: in a run with --silent no phase puts a prompt, whatever the other flags
\* and the profile; the answers are the values taken from the existing document,
\* or the defaults, no hook is configured, and the run generates from them.
C17_SilentAsksNothing ==
  (pc \in {"questions", "hooks", "generate", "done"} /\ flags.silent) =>
    /\ prompted = {}
    /\ pc \in {"hooks", "generate", "done"} =>
         answers = [description |-> preserved.description,
                    deploymentTarget |-> "Unknown",
                    architectureRules |-> preserved.architectureRules,
                    todos |-> preserved.todos]
    /\ pc \in {"generate", "done"} => hooksConfig = <<>>
    /\ pc = "done" => newContent = generate(profile, answers, <<>>, today)

C17_Witness ==
  /\ pc = "done"
  /\ flags.silent /\ flags.resetProfile /\ flags.update
  /\ fileBefore = HandDocument
  /\ runs = 1
  /\ profile # NoProfile
  /\ prompted = {}
  /\ answers.description = <<<<"hand-written description">>>>
  /\ answers.todos = <<<<"done by hand">>>>

\* C18: when the output file is absent or empty at the start of the run, the
\* content the run puts out is the generated document as it is, also with
\* --update; a run that writes leaves exactly that document in the file.
C18_FirstRunPassThrough ==
  (pc = "done" /\ fileBefore \in {NoFile, EmptyText}) =>
    /\ newContent = generate(profile, answers, hooksConfig, today)
    /\ finalContent = newContent
    /\ ~flags.dryRun => outputFile = newContent

C18_Witness ==
  /\ pc = "done"
  /\ fileBefore = EmptyText
  /\ flags.update /\ ~flags.dryRun
  /\ newContent # updateTimestamp(merge(EmptyText, newContent), today)
  /\ outputFile = newContent

(***************************************************************************)
(* Properties of parseSections                                             *)
(***************************************************************************)
\* the length of the run of '#' the line starts with
LeadingHashes(line) ==
  IF \E n \in 1..Len(line) : line[n] # "#"
  THEN (CHOOSE n \in 1..Len(line) :
          line[n] # "#" /\ \A m \in 1..(n - 1) : line[m] = "#") - 1
  ELSE Len(line)

\* the heading grammar: one to six '#', whitespace, and at least one more character
IsHeadingLine(line) ==
  /\ LeadingHashes(line) \in 1..6
  /\ Len(line) >= LeadingHashes(line) + 2
  /\ IsWhitespace(line[LeadingHashes(line) + 1])

\* C20: parseSections emits one Section for every line of the heading grammar, in
\* the order of the lines; its level is the number of leading '#' and its header is
\* the trimmed text after them.
C20_OneSectionPerHeading ==
  pc = "parsed" =>
    LET headings == {n \in 1..Len(existingContent) : IsHeadingLine(existingContent[n])}
    IN  /\ Len(reparsed) = Cardinality(headings)
        /\ \A i \in 1..Len(reparsed) :
             LET line == existingContent[Nth(headings, i)]
             IN  /\ reparsed[i].level = LeadingHashes(line)
                 /\ reparsed[i].level \in 1..6
                 /\ reparsed[i].header = InkFrom(line, LeadingHashes(line) + 1)

\* the numbers of the lines of text that are lines of the heading grammar
HeadingLines(text) == {n \in 1..Len(text) : IsHeadingLine(text[n])}

\* the lines of text without the whitespace and the empty lines at its end
RightTrimmed(text) ==
  LET inked == {n \in 1..Len(text) : Inked(text[n]) # {}}
  IN  IF inked = {} THEN EmptyText
      ELSE LET b == CHOOSE n \in inked : \A m \in inked : n >= m
           IN  [n \in 1..b |->
                  IF n = b THEN SubSeq(text[n], 1, LastInk(text[n])) ELSE text[n]]

\* the lines from the i-th heading line up to the next heading line or the end
LinesOfHeading(text, i) ==
  LET a == Nth(HeadingLines(text), i)
      later == {n \in HeadingLines(text) : n > a}
      b == IF later = {} THEN Len(text) + 1
           ELSE CHOOSE n \in later : \A m \in later : n <= m
  IN  SubSeq(text, a, b - 1)

\* C21: when the document has a heading line, the section opened by the last one is
\* the last Section emitted, whatever its header, the empty header included.
C21_EndOfInputEmission ==
  (pc = "parsed" /\ HeadingLines(existingContent) # {}) =>
    LET last == Nth(HeadingLines(existingContent),
                    Cardinality(HeadingLines(existingContent)))
        line == existingContent[last]
    IN  /\ reparsed # <<>>
        /\ reparsed[Len(reparsed)].header = InkFrom(line, LeadingHashes(line) + 1)
        /\ reparsed[Len(reparsed)].level = LeadingHashes(line)
        /\ reparsed[Len(reparsed)].content =
             RightTrimmed(SubSeq(existingContent, last, Len(existingContent)))

\* C22: the content of the i-th Section is the i-th heading line and the lines after
\* it up to the next heading line or the end of the document, whitespace at the end
\* removed; every heading line has its Section, so no line after the first heading
\* is lost or held by two Sections.
C22_SectionContent ==
  pc = "parsed" =>
    \A i \in 1..Cardinality(HeadingLines(existingContent)) :
      /\ i <= Len(reparsed)
      /\ reparsed[i].content = RightTrimmed(LinesOfHeading(existingContent, i))
      /\ RightTrimmed(<<reparsed[i].content[1]>>) =
           RightTrimmed(<<existingContent[Nth(HeadingLines(existingContent), i)]>>)

(***************************************************************************)
(* Properties of the sections of merge                                     *)
(***************************************************************************)
\* text from its first heading line on; the text of one empty line when it has none
DropPreamble(text) ==
  IF HeadingLines(text) = {} THEN EmptyText
  ELSE SubSeq(text, Nth(HeadingLines(text), 1), Len(text))

\* C23: the lines before the first heading line are in no Section and do not reach
\* the output of merge: both documents parse, and merge, as they do without their
\* preamble, and a document without a heading line has no Section.
C23_PreambleDropped ==
  pc = "merged" =>
    /\ NewSections = parseSections(DropPreamble(newContent))
    /\ ExistingSections = parseSections(DropPreamble(existingContent))
    /\ HeadingLines(newContent) = {} =>
         NewSections = <<>> /\ finalContent = ExpectedDocument(<<>>)
    /\ HeadingLines(existingContent) = {} => ExistingSections = <<>>
    /\ finalContent = merge(DropPreamble(existingContent), DropPreamble(newContent))
    /\ \A i \in 1..Len(emitted) :
         \E text \in {existingContent, newContent} : \E n \in HeadingLines(text) :
           RightTrimmed(<<emitted[i].content[1]>>) = RightTrimmed(<<text[n]>>)

C23_Witness ==
  /\ pc = "merged"
  /\ newContent = <<LineX, LineAbout>>
  /\ Len(existingContent) = 2 /\ existingContent[1] = LineY
  /\ HasHeader(ExistingSections, HeaderAbout)
  /\ finalContent = ExpectedDocument(<<DropPreamble(existingContent)>>)
  /\ Len(finalContent) = 2

(***************************************************************************)
(* Properties of an update run                                             *)
(***************************************************************************)
\* the run has read the existing file and has written the merged document
UpdateRunDone == WritingRunDone /\ flags.update /\ Truthy(fileBefore)

HeaderBehavior == <<"Copilot Behavior">>

\* the content of the last section of text headed h
SectionContent(text, h) ==
  parseSections(text)[LastWithHeader(parseSections(text), h)].content

\* C24: after an update run that asked the questions, the Architecture Rules section
\* of the written file holds the rules the existing file had followed by the rules
\* typed during the run.
C24_AddedRulesReachFile ==
  (UpdateRunDone /\ ~flags.silent
     /\ HasHeader(parseSections(fileBefore), HeaderRules)) =>
    /\ HasHeader(parseSections(outputFile), HeaderRules)
    /\ answers.architectureRules \in
         {extractPreservedData(fileBefore).architectureRules \o typed :
            typed \in TypedRules}
    /\ RulesOf(SectionContent(outputFile, HeaderRules)) = answers.architectureRules

\* C25: after an update run that asked the questions, the Pending TODOs section of
\* the written file holds the todos the existing file had and the todos typed
\* during the run.
C25_AddedTodosReachFile ==
  (UpdateRunDone /\ ~flags.silent
     /\ HasHeader(parseSections(fileBefore), HeaderTodos)) =>
    /\ HasHeader(parseSections(outputFile), HeaderTodos)
    /\ TodosOf(SectionContent(outputFile, HeaderTodos)) =
         TodosOf(SectionContent(fileBefore, HeaderTodos)) \o answers.todos

\* C26: after an update run, the one that reports "preserved: About, Architecture
\* Rules, Copilot Behavior, TODOs", the Copilot Behavior section of the written file
\* has the content it had in the existing file.
C26_CopilotBehaviorPreserved ==
  (UpdateRunDone /\ HasHeader(parseSections(fileBefore), HeaderBehavior)) =>
    /\ HasHeader(parseSections(outputFile), HeaderBehavior)
    /\ SectionContent(outputFile, HeaderBehavior) =
         SectionContent(fileBefore, HeaderBehavior)

\* the number of sections headed h
CountHeader(sections, h) ==
  Cardinality({i \in 1..Len(sections) : sections[i].header = h})

PolicyHeaders == {HeaderAbout, HeaderTodos, HeaderRules}

\* for each policy header, the content of the last section of text with that
\* header, and the empty sequence when text has none
LastPolicySections(text) ==
  [h \in PolicyHeaders |->
     IF HasHeader(parseSections(text), h) THEN SectionContent(text, h) ELSE <<>>]

\* the document made of the last policy sections of text and of nothing else
PolicyPart(text) ==
  LET last == LastPolicySections(text)
      lines == last[HeaderAbout] \o last[HeaderTodos] \o last[HeaderRules]
  IN  IF lines = <<>> THEN EmptyText ELSE lines

\* existing documents to compare text with: its policy part alone, text and its
\* policy part with a preamble, a custom section or an earlier section with a policy
\* header added
OtherDocuments(text) ==
  {PolicyPart(text),
   <<LineX>> \o text,
   <<LineNotes, LineX>> \o PolicyPart(text),
   PolicyPart(text) \o <<LineTech, LineY>>,
   text \o <<LineNotes>>,
   <<LineAbout, LineY>> \o text,
   <<LineAbout, LineY, LineNotes>> \o PolicyPart(text)}

HeaderText(line) == InkFrom(line, LeadingHashes(line) + 1)

\* the numbers of the heading lines of text, of any level, whose text is h
HeadingsOf(text, h) == {n \in HeadingLines(text) : HeaderText(text[n]) = h}

\* the lines of text from line a up to the next heading line, of any level, or the
\* end, without the whitespace at their end
FlatSection(text, a) ==
  LET later == {n \in HeadingLines(text) : n > a}
  IN  RightTrimmed(SubSeq(text, a,
                          IF later = {} THEN Len(text)
                          ELSE (CHOOSE n \in later : \A m \in later : n <= m) - 1))

\* C29: when the first existing document has a section with a policy header and
\* every new document has one, merge emits under that header, after every update,
\* the content the last section with that header had in the first document.
C29_StableAcrossUpdates ==
  pc = "updated" =>
    \A h \in PolicyHeaders :
      (/\ HasHeader(parseSections(fileBefore), h)
       /\ \A new \in UpdateNews : HasHeader(parseSections(new), h)) =>
        \A i \in 1..Len(emitted) :
          emitted[i].header = h =>
            emitted[i].content = SectionContent(fileBefore, h)

=============================================================================
